---- MODULE Spec2Model ----
(***************************************************************************)
(* Host lifecycle state machine of libmachine/host/host.go.                *)
(*                                                                         *)
(* One Host owns one Driver.  The driver is an external collaborator: its  *)
(* reported state is read through GetState and may change between any two  *)
(* reads (the VM starts, stops, crashes or is paused on its own schedule), *)
(* and every driver call may succeed or fail.  Each Host operation is      *)
(* split at its driver calls, so the environment interleaves exactly where *)
(* the Go code blocks on the driver or sleeps in the wait loop.            *)
(***************************************************************************)
EXTENDS Naturals, FiniteSets, Sequences, TLC

(* ---- bounds ---- *)
\* Attempt budget of the wait utility (the vendored default is larger).
MaxAttempts == 3
\* Number of distinct raw configuration blobs.
NumCfgs == 2

(* ---- values ---- *)
Running == "Running"
Stopped == "Stopped"
States == {"Starting", Running, "Paused", "Stopping", Stopped, "Error", "Timeout", "Saved"}

Callers == {1, 2}
\* The single orchestrating caller the design assumes.
Solo == {1}
Names == {"crc", "a"}
Cfgs == 0 .. (NumCfgs - 1)

Nil == [kind |-> "nil"]
Pending == [kind |-> "pending"]
ErrTimeout == [kind |-> "Timeout"]
ErrNotImplemented == [kind |-> "ErrNotImplemented"]
ErrHostAlreadyInState(n, s) == [kind |-> "ErrHostAlreadyInState", Name |-> n, State |-> s]

\* Errors a driver call can return.  rpc: errors.As finds an rpc.ServerError;
\* text: the result of err.Error().
DrvErrs == {[kind |-> "driver", rpc |-> r, text |-> t] :
                r \in BOOLEAN, t \in {"Not Implemented", "connection refused"}}
URLs == {"tcp://192.168.130.11:2376"}

NoCalls == [start |-> 0, stop |-> 0, kill |-> 0, restart |-> 0,
            updateConfigRaw |-> 0, getURL |-> 0]

(* ---- preflight: the static check tables ---- *)
\* A Check is named by its configKeySuffix (by its cleanup for the one without).
NoCheck == ""
genericPreflightChecks == <<"check-admin-helper-cached", "check-bundle-extracted">>
nonWinPreflightChecks == <<"check-root-user">>
libvirtPreflightChecks ==
    <<"check-virt-enabled", "check-kvm-enabled", "check-libvirt-installed",
      "check-user-in-libvirt-group", "check-libvirt-running", "check-libvirt-version",
      "check-libvirt-driver", "check-obsolete-libvirt-driver", "check-crc-network",
      "check-crc-network-active", "removeCrcVM">>
redhatPreflightChecks ==
    <<"check-network-manager-installed", "check-network-manager-running">>
vsockPreflightChecks == "check-vsock"

\* The package-level variables as storage: array number |-> its elements.
GenericT == 1
NonWinT == 2
LibvirtT == 3
RedhatT == 4
VsockT == 5
StaticTables ==
    <<genericPreflightChecks, nonWinPreflightChecks, libvirtPreflightChecks,
      redhatPreflightChecks, <<vsockPreflightChecks>> >>

DefaultMode == "default"
VSockMode == "vsock"
Modes == {DefaultMode, VSockMode}
Ubuntu == "ubuntu"
RedHatFamily == {"rhel", "centos", "fedora"}
Distros == {Ubuntu} \cup RedHatFamily \cup {"arch-unknown-xyz", "unknown"}
\* What linux.GetOsRelease() answers: an error, or a release with its ID.
OsReleases == {[err |-> TRUE, id |-> ""]}
                 \cup {[err |-> FALSE, id |-> d] : d \in Distros \ {"unknown"}}

WarnNoDistroName == "cannot get distribution name"
WarnNotImplemented == "distribution-specific preflight checks are not implemented"

\* A call of the Registry Builder nobody made yet.
NoBuild == [fn |-> "none", distro |-> "", mode |-> "", result |-> <<>>, warnings |-> <<>>]
BuildKeys == {<<fn, d, m>> : fn \in {"forDistro"}, d \in Distros, m \in Modes}
                \cup {<<"all", d, DefaultMode>> : d \in Distros}
RegistryIdle ==
    [tables |-> StaticTables, last |-> NoBuild,
     watched |-> <<"all", Ubuntu, DefaultMode>>, first |-> [set |-> FALSE, val |-> <<>>, again |-> FALSE]]

(* ---- preflight: the system the vsock check and fix act on ---- *)
\* The number written with the octal digits ds, most significant first.
RECURSIVE Oct(_)
Oct(ds) == IF ds = <<>> THEN 0
           ELSE 8 * Oct(SubSeq(ds, 1, Len(ds) - 1)) + ds[Len(ds)]

\* What getcap prints for the executable.
CapEip == "cap_net_bind_service+eip"
GetcapOutputs == {"", CapEip, "cap_net_bind_service+ep"}
Groups == {"root", "libvirt", "kvm"}
\* Permission bits of /dev/vsock.
DevModes == {Oct(<<6, 0, 0>>), Oct(<<6, 2, 0>>), Oct(<<6, 4, 0>>),
             Oct(<<6, 6, 0>>), Oct(<<6, 6, 6>>)}
\* caps: the executable's capabilities as getcap prints them; dev: /dev/vsock
\* exists; group, mode: its owning group and permission bits.
Systems == [caps : GetcapOutputs, dev : BOOLEAN, group : Groups, mode : DevModes]
NoRun == [op |-> "none"]
VsockIdle ==
    [sys |-> [caps |-> "", dev |-> FALSE, group |-> "root", mode |-> Oct(<<6, 0, 0>>)],
     last |-> NoRun]

NoName == [name |-> <<>>, done |-> FALSE, ok |-> FALSE]

VARIABLES
    Name,       \* Host.Name
    RawDriver,  \* Host.RawDriver
    drvState,   \* what Driver.GetState reports now
    drvCfg,     \* the configuration the driver accepted last
    call,       \* per caller: position in the current operation and its record
    registry,   \* preflight: the check tables and the Registry Builder's calls
    vsock,      \* preflight: the system checkVsock/fixVsock act on, and their last run
    validated   \* ValidateHostName: the name given and the answer

hostVars == <<Name, RawDriver, drvState, drvCfg, call>>
preflightVars == <<registry, vsock>>
vars == <<Name, RawDriver, drvState, drvCfg, call, registry, vsock, validated>>

\* The record of a caller that has not called anything yet.
\* What a caller remembers of its previous call: the operation, when it was a
\* Start, Stop or Kill that returned nil, and the last state that call read.
NoPrev == [op |-> "none", saw |-> "none"]

IdleFrame ==
    [pc |-> "idle", op |-> "none", arg |-> 0, saved |-> 0,
     action |-> "none", desiredState |-> "none",
     guardSaw |-> "none", rSaw1 |-> "none", rSaw2 |-> "none", waitSaw |-> "none",
     calls |-> NoCalls, evals |-> 0, firstTrue |-> 0,
     actErr |-> Nil, ret |-> Nil, url |-> "", prev |-> NoPrev]

\* The record at the entry of operation o with argument a.
Frame(o, a, at) ==
    [IdleFrame EXCEPT !.pc = at, !.op = o, !.arg = a, !.saved = RawDriver,
                      !.ret = Pending]

Init ==
    /\ Name \in Names
    /\ RawDriver \in Cfgs
    /\ drvCfg = RawDriver
    /\ drvState \in States
    /\ call = [p \in Callers |-> IdleFrame]
    /\ registry = RegistryIdle
    /\ vsock = VsockIdle
    /\ validated = NoName

(* ---- pure parts of the code ---- *)

\* drivers.MachineInState(d, desired)(): the predicate over the reported state.
MachineInState(cur, desired) == cur = desired

HostAction_KillStops(o) ==
    CASE o = "Start" -> "start"
      [] o = "Stop"  -> "stop"
      [] o = "Kill"  -> "stop"

\* The driver method each operation hands to runActionForState.
HostAction(o) ==
    CASE o = "Start" -> "start"
      [] o = "Stop"  -> "stop"
      [] o = "Kill"  -> "kill"

\* The desired state each operation hands to runActionForState.
HostDesiredState(o) ==
    CASE o = "Start" -> Running
      [] o = "Stop"  -> Stopped
      [] o = "Kill"  -> Stopped

GuardOutcome_FallsThrough(inState) == "action"

\* runActionForState, the guard: return the error or go on to the action.
GuardOutcome(inState) == IF inState THEN "return" ELSE "action"

ActionOutcome_IgnoresError(err) == "wait"

\* runActionForState, after action(): return its error or enter WaitFor.
ActionOutcome(err) == IF err # Nil THEN "return" ELSE "wait"

OpResult_AlwaysNil(err) == Nil

\* Start/Stop/Kill: what the operation returns given runActionForState's result.
OpResult(err) == IF err # Nil THEN err ELSE Nil

WaitForStep_OneMore(n, ok) ==
    IF ok THEN "success"
    ELSE IF n + 1 > MaxAttempts THEN "timeout"
    ELSE "sleep"

\* mcnutils.WaitFor, one iteration: n evaluations were made before this one,
\* ok is this evaluation's result.
WaitForStep(n, ok) ==
    IF ok THEN "success"
    ELSE IF n + 1 >= MaxAttempts THEN "timeout"
    ELSE "sleep"

RestartOnStopped_DriverRestart(inStopped) ==
    IF inStopped THEN "driverRestart" ELSE "checkRunning"

\* Restart: the first branch, on "is the machine Stopped".
RestartOnStopped(inStopped) == IF inStopped THEN "Start" ELSE "checkRunning"

RestartOnRunning_Always(inRunning) == "driverRestart"

RestartOnRunning_Retry(inRunning) ==
    IF inRunning THEN "driverRestart" ELSE "checkStopped"

\* Restart: the second branch, on "is the machine Running".
RestartOnRunning(inRunning) == IF inRunning THEN "driverRestart" ELSE "return"

\* Restart: after Driver.Restart(): return its error or enter WaitFor.
RestartActionOutcome(err) == IF err # Nil THEN "return" ELSE "wait"

RestartWaitState_Stopped == Stopped

\* Restart: the state its own WaitFor waits for.
RestartWaitState == Running

TranslateErr_TextOnly(err) ==
    IF err.text = "Not Implemented" THEN ErrNotImplemented ELSE err

\* UpdateConfig: the translation of the driver's error.
TranslateErr(err) ==
    IF err.rpc /\ err.text = "Not Implemented" THEN ErrNotImplemented ELSE err

UpdateConfigOutcome_AlwaysAssign(err) == "assign"

\* UpdateConfig: after Driver.UpdateConfigRaw(): return the error or go on to
\* the assignment of RawDriver.
UpdateConfigOutcome(err) == IF err # Nil THEN "return" ELSE "assign"

(* ---- operations ---- *)

\* h.runActionForState(action, desiredState) is entered.
EnterRunAction(f, o) ==
    [f EXCEPT !.pc = "guard", !.action = HostAction(o),
              !.desiredState = HostDesiredState(o)]

\* The caller's previous call, seen from the entry of the next one.
LastSuccess(f) ==
    IF f.op \in {"Start", "Stop", "Kill"} /\ f.ret = Nil
    THEN [op |-> f.op, saw |-> f.waitSaw]
    ELSE NoPrev

\* Start, Stop and Kill: return h.runActionForState(h.Driver.X, state.Y).
EnterTransition(f, o) ==
    [EnterRunAction(Frame(o, 0, "guard"), o) EXCEPT !.prev = LastSuccess(f)]

Start(p) ==
    /\ call[p].pc = "idle"
    /\ call' = [call EXCEPT ![p] = EnterTransition(call[p], "Start")]
    /\ UNCHANGED <<Name, RawDriver, drvState, drvCfg, preflightVars, validated>>

Stop(p) ==
    /\ call[p].pc = "idle"
    /\ call' = [call EXCEPT ![p] = EnterTransition(call[p], "Stop")]
    /\ UNCHANGED <<Name, RawDriver, drvState, drvCfg, preflightVars, validated>>

Kill(p) ==
    /\ call[p].pc = "idle"
    /\ call' = [call EXCEPT ![p] = EnterTransition(call[p], "Kill")]
    /\ UNCHANGED <<Name, RawDriver, drvState, drvCfg, preflightVars, validated>>

\* runActionForState: the guard reads the driver's state once.
RunActionGuard(p) ==
    LET f == call[p]
        out == GuardOutcome(MachineInState(drvState, f.desiredState))
    IN  /\ f.pc = "guard"
        /\ call' = [call EXCEPT ![p] =
              IF out = "return"
              THEN [f EXCEPT !.guardSaw = drvState, !.pc = "idle",
                             !.ret = OpResult(ErrHostAlreadyInState(Name, f.desiredState))]
              ELSE [f EXCEPT !.guardSaw = drvState, !.pc = "action"]]
        /\ UNCHANGED <<Name, RawDriver, drvState, drvCfg, preflightVars, validated>>

\* runActionForState: action() is called; the driver answers err and leaves the
\* machine in whatever state it reports next.
RunActionCall(p) ==
    LET f == call[p] IN
    /\ f.pc = "action"
    /\ \E err \in {Nil} \cup DrvErrs, s \in States :
          /\ drvState' = s
          /\ call' = [call EXCEPT ![p] =
                LET g == [f EXCEPT !.calls[f.action] = @ + 1, !.actErr = err] IN
                IF ActionOutcome(err) = "return"
                THEN [g EXCEPT !.pc = "idle", !.ret = OpResult(err)]
                ELSE [g EXCEPT !.pc = "wait"]]
    /\ UNCHANGED <<Name, RawDriver, drvCfg, preflightVars, validated>>

\* mcnutils.WaitFor: one evaluation of MachineInState(h.Driver, desiredState).
WaitFor(p) ==
    LET f == call[p]
        ok == MachineInState(drvState, f.desiredState)
        out == WaitForStep(f.evals, ok)
        g == [f EXCEPT !.evals = @ + 1, !.waitSaw = drvState,
                       !.firstTrue = IF ok /\ @ = 0 THEN f.evals + 1 ELSE @]
    IN  /\ f.pc = "wait"
        /\ call' = [call EXCEPT ![p] =
              CASE out = "success" -> [g EXCEPT !.pc = "idle", !.ret = OpResult(Nil)]
                [] out = "timeout" -> [g EXCEPT !.pc = "idle", !.ret = OpResult(ErrTimeout)]
                [] OTHER           -> g]
        /\ UNCHANGED <<Name, RawDriver, drvState, drvCfg, preflightVars, validated>>

Restart(p) ==
    /\ call[p].pc = "idle"
    /\ call' = [call EXCEPT ![p] = Frame("Restart", 0, "checkStopped")]
    /\ UNCHANGED <<Name, RawDriver, drvState, drvCfg, preflightVars, validated>>

\* Restart: MachineInState(h.Driver, state.Stopped)().
RestartCheckStopped(p) ==
    LET f == call[p]
        out == RestartOnStopped(MachineInState(drvState, Stopped))
        g == [f EXCEPT !.rSaw1 = drvState]
    IN  /\ f.pc = "checkStopped"
        /\ call' = [call EXCEPT ![p] =
              CASE out = "Start"         -> EnterRunAction(g, "Start")
                [] out = "driverRestart" -> [g EXCEPT !.pc = "driverRestart"]
                [] out = "return"        -> [g EXCEPT !.pc = "idle", !.ret = Nil]
                [] OTHER                 -> [g EXCEPT !.pc = "checkRunning"]]
        /\ UNCHANGED <<Name, RawDriver, drvState, drvCfg, preflightVars, validated>>

\* Restart: MachineInState(h.Driver, state.Running)().
RestartCheckRunning(p) ==
    LET f == call[p]
        out == RestartOnRunning(MachineInState(drvState, Running))
        g == [f EXCEPT !.rSaw2 = drvState]
    IN  /\ f.pc = "checkRunning"
        /\ call' = [call EXCEPT ![p] =
              CASE out = "driverRestart" -> [g EXCEPT !.pc = "driverRestart"]
                [] out = "Start"         -> EnterRunAction(g, "Start")
                [] out = "checkStopped"  -> [g EXCEPT !.pc = "checkStopped"]
                [] OTHER                 -> [g EXCEPT !.pc = "idle", !.ret = Nil]]
        /\ UNCHANGED <<Name, RawDriver, drvState, drvCfg, preflightVars, validated>>

\* Restart: h.Driver.Restart(), then WaitFor(MachineInState(h.Driver, Running)).
RestartCall(p) ==
    LET f == call[p] IN
    /\ f.pc = "driverRestart"
    /\ \E err \in {Nil} \cup DrvErrs, s \in States :
          /\ drvState' = s
          /\ call' = [call EXCEPT ![p] =
                LET g == [f EXCEPT !.calls.restart = @ + 1, !.actErr = err] IN
                IF RestartActionOutcome(err) = "return"
                THEN [g EXCEPT !.pc = "idle", !.ret = err]
                ELSE [g EXCEPT !.pc = "wait", !.desiredState = RestartWaitState]]
    /\ UNCHANGED <<Name, RawDriver, drvCfg, preflightVars, validated>>

UpdateConfig(p) ==
    /\ call[p].pc = "idle"
    /\ \E rawConfig \in Cfgs :
          call' = [call EXCEPT ![p] = Frame("UpdateConfig", rawConfig, "updateConfigRaw")]
    /\ UNCHANGED <<Name, RawDriver, drvState, drvCfg, preflightVars, validated>>

\* UpdateConfig: h.Driver.UpdateConfigRaw(rawConfig) and the error branch.
UpdateConfigCall(p) ==
    LET f == call[p] IN
    /\ f.pc = "updateConfigRaw"
    /\ \E err \in {Nil} \cup DrvErrs :
          /\ drvCfg' = IF err = Nil THEN f.arg ELSE drvCfg
          /\ call' = [call EXCEPT ![p] =
                LET g == [f EXCEPT !.calls.updateConfigRaw = @ + 1, !.actErr = err] IN
                IF UpdateConfigOutcome(err) = "return"
                THEN [g EXCEPT !.pc = "idle", !.ret = TranslateErr(err)]
                ELSE [g EXCEPT !.pc = "assign"]]
    /\ UNCHANGED <<Name, RawDriver, drvState, preflightVars, validated>>

\* UpdateConfig: h.RawDriver = rawConfig; return nil.
UpdateConfigAssign(p) ==
    LET f == call[p] IN
    /\ f.pc = "assign"
    /\ RawDriver' = f.arg
    /\ call' = [call EXCEPT ![p] = [f EXCEPT !.pc = "idle", !.ret = Nil]]
    /\ UNCHANGED <<Name, drvState, drvCfg, preflightVars, validated>>

\* URL: return h.Driver.GetURL().
URL(p) ==
    /\ call[p].pc = "idle"
    /\ \E r \in {[url |-> u, err |-> Nil] : u \in URLs}
              \cup {[url |-> "", err |-> e] : e \in DrvErrs} :
          call' = [call EXCEPT ![p] =
                     [Frame("URL", 0, "idle") EXCEPT !.calls.getURL = 1,
                                                      !.url = r.url, !.ret = r.err]]
    /\ UNCHANGED <<Name, RawDriver, drvState, drvCfg, preflightVars, validated>>

\* The machine changes state on its own: an asynchronous start or stop
\* completes, the VM crashes, is paused or saved.
DriverProgress ==
    /\ \E s \in States \ {drvState} : drvState' = s
    /\ UNCHANGED <<Name, RawDriver, drvCfg, call, preflightVars, validated>>

Step(p) ==
    \/ Start(p)
    \/ Stop(p)
    \/ Kill(p)
    \/ RunActionGuard(p)
    \/ RunActionCall(p)
    \/ WaitFor(p)
    \/ Restart(p)
    \/ RestartCheckStopped(p)
    \/ RestartCheckRunning(p)
    \/ RestartCall(p)
    \/ UpdateConfig(p)
    \/ UpdateConfigCall(p)
    \/ UpdateConfigAssign(p)
    \/ URL(p)

Next == (\E p \in Solo : Step(p)) \/ DriverProgress

Spec == Init /\ [][Next]_vars

(* ---- claims ---- *)

Transitions == {"Start", "Stop", "Kill"}
\* The target state and the driver action of each transition, as the
\* specification states them.
TargetOf(o) == IF o = "Start" THEN Running ELSE Stopped
OnlyCall(o) ==
    CASE o = "Start" -> [NoCalls EXCEPT !.start = 1]
      [] o = "Stop"  -> [NoCalls EXCEPT !.stop = 1]
      [] o = "Kill"  -> [NoCalls EXCEPT !.kill = 1]

\* C1: when the guard of Start, Stop or Kill finds the driver reporting the
\* operation's target state, the operation has returned AlreadyInState with
\* the host name and the target state, no driver action was invoked and no
\* wait was performed.
C1_AlreadyInState ==
    \A p \in Callers : LET f == call[p] IN
        (f.op \in Transitions /\ f.guardSaw = TargetOf(f.op)) =>
            /\ f.pc = "idle"
            /\ f.ret = ErrHostAlreadyInState(Name, TargetOf(f.op))
            /\ f.calls = NoCalls
            /\ f.evals = 0

C1_Witness ==
    \E p \in Callers : LET f == call[p] IN
        /\ f.op = "Kill" /\ f.guardSaw = Stopped /\ f.pc = "idle"
        /\ f.ret = ErrHostAlreadyInState(Name, Stopped)

\* C2: when the guard of Start, Stop or Kill finds any other state, the
\* matching driver action is invoked exactly once; after its success the
\* operation stays in the wait while the driver does not report the target
\* state, and it returns success exactly when the wait observes the target.
C2_ActsOnceThenWaits ==
    \A p \in Callers : LET f == call[p] IN
        (f.op \in Transitions /\ f.guardSaw \notin {"none", TargetOf(f.op)}) =>
            /\ f.pc = "action" => f.calls = NoCalls
            /\ f.pc \in {"wait", "idle"} => f.calls = OnlyCall(f.op)
            /\ f.pc = "wait" => (f.actErr = Nil /\ f.waitSaw # TargetOf(f.op))
            /\ (f.pc = "idle" /\ f.actErr = Nil) =>
                  /\ f.evals >= 1
                  /\ f.ret = Nil <=> f.waitSaw = TargetOf(f.op)

C2_Witness ==
    \E p \in Callers : LET f == call[p] IN
        /\ f.op = "Kill" /\ f.guardSaw = "Error" /\ f.pc = "idle"
        /\ f.calls = OnlyCall("Kill") /\ f.evals = 2
        /\ f.waitSaw = Stopped /\ f.ret = Nil

\* C3: when the driver action of Start, Stop or Kill fails, the operation has
\* returned that very error, made no wait evaluation and invoked the action
\* once only.
C3_ActionErrorPropagates ==
    \A p \in Callers : LET f == call[p] IN
        (f.op \in Transitions /\ f.actErr # Nil) =>
            /\ f.pc = "idle"
            /\ f.ret = f.actErr
            /\ f.evals = 0
            /\ f.calls = OnlyCall(f.op)

C3_Witness ==
    \E p \in Callers : LET f == call[p] IN
        /\ f.op = "Start" /\ f.pc = "idle" /\ f.actErr \in DrvErrs
        /\ f.ret = f.actErr /\ f.calls.start = 1

\* C4: when the driver action of Start, Stop or Kill succeeded and no wait
\* evaluation observed the target state, the operation returns Timeout after
\* the whole attempt budget; it returns success only with the target state
\* observed after the action.
C4_TimeoutSurfaces ==
    \A p \in Callers : LET f == call[p] IN
        (f.op \in Transitions /\ f.pc = "idle") =>
            /\ (f.calls = OnlyCall(f.op) /\ f.actErr = Nil /\ f.firstTrue = 0) =>
                  (f.ret = ErrTimeout /\ f.evals = MaxAttempts)
            /\ f.ret = Nil =>
                  (f.calls = OnlyCall(f.op) /\ f.firstTrue # 0
                   /\ f.waitSaw = TargetOf(f.op))

C4_Witness ==
    \E p \in Callers : LET f == call[p] IN
        /\ f.op = "Start" /\ f.pc = "idle" /\ f.calls.start = 1 /\ f.actErr = Nil
        /\ f.evals = MaxAttempts /\ f.waitSaw = "Starting" /\ f.ret = ErrTimeout

\* C5: WaitFor returns success after exactly k evaluations when the predicate
\* is first true on the k-th (k within the budget), and Timeout after exactly
\* MaxAttempts evaluations when it was never true.
C5_WaitForCounts ==
    \A p \in Callers : LET f == call[p] IN
        /\ f.evals <= MaxAttempts
        /\ f.pc = "wait" => (f.firstTrue = 0 /\ f.evals < MaxAttempts)
        /\ f.firstTrue # 0 =>
              (f.evals = f.firstTrue /\ f.pc = "idle" /\ f.ret = Nil)
        /\ (f.pc = "idle" /\ f.evals > 0 /\ f.firstTrue = 0) =>
              (f.ret = ErrTimeout /\ f.evals = MaxAttempts)
        /\ f.ret = ErrTimeout => (f.firstTrue = 0 /\ f.evals = MaxAttempts)

C5_Witness ==
    \E p \in Callers : LET f == call[p] IN
        /\ f.pc = "idle" /\ f.firstTrue = MaxAttempts /\ f.evals = MaxAttempts
        /\ f.ret = Nil

\* What a finished Start() has done and returned, as a function of what the
\* driver answered: the state at the guard, the start action's error, and
\* whether a wait evaluation observed Running.
StartContract(f) ==
    IF f.guardSaw = Running
    THEN /\ f.calls = NoCalls
         /\ f.evals = 0
         /\ f.ret = ErrHostAlreadyInState(Name, Running)
    ELSE /\ f.calls = OnlyCall("Start")
         /\ f.ret = (CASE f.actErr # Nil  -> f.actErr
                       [] f.firstTrue # 0 -> Nil
                       [] OTHER           -> ErrTimeout)
         /\ f.actErr # Nil => f.evals = 0
         /\ f.ret = Nil => f.waitSaw = Running
         /\ f.ret = ErrTimeout => f.evals = MaxAttempts

\* C6 (as stated): a Restart() that found the driver reporting Stopped has made
\* one driver start and no other driver call, and returns success, the start
\* error or Timeout.
C6_Original ==
    \A p \in Callers : LET f == call[p] IN
        (f.op = "Restart" /\ f.rSaw1 = Stopped /\ f.pc = "idle") =>
            /\ f.calls = OnlyCall("Start")
            /\ f.ret \in ({Nil, ErrTimeout} \cup DrvErrs)

\* C6 (amended): a Restart() that found the driver reporting Stopped runs
\* Start(): it never calls the driver's restart, and it finishes exactly as a
\* Start() does on the same driver answers, Start's own guard included
\* (AlreadyInState and no driver call when the driver reports Running by then).
C6_RestartStoppedIsStart ==
    \A p \in Callers : LET f == call[p] IN
        /\ (f.op = "Restart" /\ f.rSaw1 = Stopped) =>
              (f.rSaw2 = "none" /\ f.calls.restart = 0
               /\ f.pc \in {"guard", "action", "wait", "idle"})
        /\ (f.pc = "idle" /\ (f.op = "Start" \/ (f.op = "Restart" /\ f.rSaw1 = Stopped)))
              => StartContract(f)

C6_Witness ==
    \E p \in Callers : LET f == call[p] IN
        /\ f.op = "Restart" /\ f.rSaw1 = Stopped /\ f.pc = "idle"
        /\ f.guardSaw = Stopped /\ f.calls = OnlyCall("Start")
        /\ f.waitSaw = Running /\ f.ret = Nil

\* C7: a Restart() whose Running check found the driver reporting Running
\* invokes the driver's restart exactly once and no other action, then waits
\* for Running: it returns the restart error unchanged without waiting,
\* Timeout when Running is not observed within the budget, success otherwise.
C7_RestartRunning ==
    \A p \in Callers : LET f == call[p] IN
        (f.op = "Restart" /\ f.rSaw2 = Running) =>
            /\ f.guardSaw = "none"
            /\ f.pc \in {"driverRestart", "wait", "idle"}
            /\ f.pc = "driverRestart" => f.calls = NoCalls
            /\ f.pc \in {"wait", "idle"} => f.calls = [NoCalls EXCEPT !.restart = 1]
            /\ f.pc = "wait" => (f.actErr = Nil /\ f.waitSaw # Running)
            /\ f.pc = "idle" =>
                  /\ f.ret = (CASE f.actErr # Nil  -> f.actErr
                                [] f.firstTrue # 0 -> Nil
                                [] OTHER           -> ErrTimeout)
                  /\ f.actErr # Nil => f.evals = 0
                  /\ f.ret = Nil => f.waitSaw = Running
                  /\ f.ret = ErrTimeout => f.evals = MaxAttempts

C7_Witness ==
    \E p \in Callers : LET f == call[p] IN
        /\ f.op = "Restart" /\ f.rSaw2 = Running /\ f.pc = "idle"
        /\ f.calls.restart = 1 /\ f.evals = 2 /\ f.waitSaw = Running /\ f.ret = Nil

\* C8: a Restart() whose checks found the driver reporting neither Stopped nor
\* Running invokes no driver action, performs no wait and returns success.
C8_RestartNoOp ==
    \A p \in Callers : LET f == call[p] IN
        (f.op = "Restart" /\ f.rSaw1 \notin {"none", Stopped}
                          /\ f.rSaw2 \notin {"none", Running}) =>
            /\ f.pc = "idle"
            /\ f.ret = Nil
            /\ f.calls = NoCalls
            /\ f.evals = 0
            /\ f.guardSaw = "none"

C8_Witness ==
    \E p \in Callers : LET f == call[p] IN
        /\ f.op = "Restart" /\ f.rSaw1 = "Error" /\ f.rSaw2 = "Error"
        /\ f.pc = "idle" /\ f.ret = Nil /\ f.calls = NoCalls

\* C9 (as stated): a driver error whose text is "Not Implemented" comes back
\* as the typed NotImplemented error with RawDriver unchanged; every other
\* driver error comes back unchanged.
C9_Original ==
    \A p \in Callers : LET f == call[p] IN
        (f.op = "UpdateConfig" /\ f.pc = "idle" /\ f.actErr # Nil) =>
            IF f.actErr.text = "Not Implemented"
            THEN f.ret = ErrNotImplemented /\ RawDriver = f.saved
            ELSE f.ret = f.actErr

\* C9 (amended): a driver error that is a remote-call error (rpc.ServerError)
\* and whose text is "Not Implemented" comes back as the typed NotImplemented
\* error; every other driver error, one with that text that is not a
\* remote-call error included, comes back unchanged; RawDriver is unchanged
\* in both cases.
C9_TranslatesRemoteNotImplemented ==
    \A p \in Callers : LET f == call[p] IN
        (f.op = "UpdateConfig" /\ f.pc = "idle" /\ f.actErr # Nil) =>
            /\ f.ret = IF f.actErr.rpc /\ f.actErr.text = "Not Implemented"
                       THEN ErrNotImplemented ELSE f.actErr
            /\ RawDriver = f.saved
            /\ f.calls = [NoCalls EXCEPT !.updateConfigRaw = 1]

C9_Witness ==
    \E p \in Callers : LET f == call[p] IN
        /\ f.op = "UpdateConfig" /\ f.pc = "idle"
        /\ f.actErr = [kind |-> "driver", rpc |-> TRUE, text |-> "Not Implemented"]
        /\ f.ret = ErrNotImplemented
        /\ f.arg # f.saved /\ RawDriver = f.saved

\* C10: with one caller, between operations RawDriver is the blob the driver
\* accepted last (its construction value while none was accepted): a
\* successful UpdateConfig(cfg) leaves RawDriver = cfg, a failed one and every
\* other operation leave it as it was when the operation began.
C10_RawDriverIsAccepted ==
    /\ (\A p \in Callers : call[p].pc # "assign") => RawDriver = drvCfg
    /\ \A p \in Callers : LET f == call[p] IN
        /\ (f.op = "UpdateConfig" /\ f.pc = "idle") =>
              RawDriver = (IF f.actErr = Nil THEN f.arg ELSE f.saved)
        /\ (f.op = "UpdateConfig" /\ f.pc = "idle") =>
              (f.ret = Nil <=> f.actErr = Nil)
        /\ f.op \notin {"none", "UpdateConfig"} => RawDriver = f.saved

C10_Witness ==
    \E p \in Callers : LET f == call[p] IN
        /\ f.op = "UpdateConfig" /\ f.pc = "idle" /\ f.ret = Nil
        /\ f.arg # f.saved /\ RawDriver = f.arg /\ drvCfg = f.arg

\* C17: when a caller repeats the Start, Stop or Kill that has just returned
\* nil and the guard reads the state that call read last, the repeated call
\* returns AlreadyInState and invokes no driver action; and a Start, Stop or
\* Kill that returned nil invoked its driver action exactly once.
C17_RepeatIsSignalled ==
    \A p \in Callers : LET f == call[p] IN
        f.op \in Transitions =>
            /\ (f.prev.op = f.op /\ f.guardSaw # "none" /\ f.guardSaw = f.prev.saw) =>
                  /\ f.pc = "idle"
                  /\ f.ret = ErrHostAlreadyInState(Name, TargetOf(f.op))
                  /\ f.calls = NoCalls
            /\ (f.pc = "idle" /\ f.ret = Nil) => f.calls = OnlyCall(f.op)

C17_Witness ==
    \E p \in Callers : LET f == call[p] IN
        /\ f.op = "Stop" /\ f.prev = [op |-> "Stop", saw |-> Stopped]
        /\ f.guardSaw = Stopped /\ f.pc = "idle"
        /\ f.ret = ErrHostAlreadyInState(Name, Stopped)
        /\ f.calls = NoCalls


\* A call that has been entered goes on: every driver call and every sleep of
\* the wait utility returns.  The machine itself owes no progress.
Continue(p) ==
    \/ RunActionGuard(p)
    \/ RunActionCall(p)
    \/ WaitFor(p)
    \/ RestartCheckStopped(p)
    \/ RestartCheckRunning(p)
    \/ RestartCall(p)
    \/ UpdateConfigCall(p)
    \/ UpdateConfigAssign(p)

SpecLive == Spec /\ \A p \in Solo : WF_vars(Continue(p))

Lifecycle == {"Start", "Stop", "Kill", "Restart"}

\* C18: every Start, Stop, Kill and Restart call that has been entered
\* returns; a call that entered the wait returns nil with the target state
\* observed, or Timeout after exactly MaxAttempts evaluations none of which
\* saw the target state.
C18_LifecycleTerminates ==
    /\ \A p \in Solo :
          (call[p].op \in Lifecycle /\ call[p].pc # "idle") ~> (call[p].pc = "idle")
    /\ [](\A p \in Solo : LET f == call[p] IN
            (f.op \in Lifecycle /\ f.pc = "idle" /\ f.evals > 0) =>
                \/ f.ret = Nil /\ f.waitSaw = f.desiredState /\ f.evals <= MaxAttempts
                \/ f.ret = ErrTimeout /\ f.evals = MaxAttempts /\ f.firstTrue = 0)

C18_Witness ==
    \E p \in Solo : LET f == call[p] IN
        /\ f.op = "Start" /\ f.pc = "idle" /\ f.ret = ErrTimeout
        /\ f.evals = MaxAttempts /\ f.firstTrue = 0 /\ f.waitSaw # Running


(* ---- two callers on one Host ---- *)

\* What the driver is taken to answer while two callers run: the machine is
\* Running or Stopped after an action, and a call succeeds or is refused.
ConcStates == {Running, Stopped}
ConcErrs == {Nil, [kind |-> "driver", rpc |-> FALSE, text |-> "connection refused"]}

ConcInit ==
    /\ Init
    /\ Name = "crc"
    /\ drvState \in ConcStates

ConcRunActionCall(p) ==
    /\ RunActionCall(p)
    /\ drvState' \in ConcStates
    /\ call'[p].actErr \in ConcErrs

ConcUpdateConfigCall(p) ==
    /\ UpdateConfigCall(p)
    /\ call'[p].actErr \in ConcErrs

\* One step of either caller; nothing orders the steps of the two.
ConcStep(p) ==
    \/ Start(p)
    \/ Stop(p)
    \/ RunActionGuard(p)
    \/ ConcRunActionCall(p)
    \/ WaitFor(p)
    \/ UpdateConfig(p)
    \/ ConcUpdateConfigCall(p)
    \/ UpdateConfigAssign(p)

ConcNext == \E p \in Callers : ConcStep(p)

SpecConc == ConcInit /\ [][ConcNext]_vars

\* C20: nothing serialises two callers of one Host.  A caller passes the guard
\* on the state it read itself and, once past it, invokes the driver action
\* whatever the other caller has done since, so both can be past the guard at
\* once and the action is then invoked by each; UpdateConfig assigns its own
\* argument to RawDriver after its own accepted driver call, whatever the
\* driver has accepted since, so RawDriver can differ from the configuration
\* the driver accepted last.
C20_NothingSerialisesCallers ==
    /\ [](\A p \in Callers : LET f == call[p] IN
            /\ (f.op \in Transitions /\ f.pc = "action") =>
                  f.guardSaw # TargetOf(f.op) /\ f.calls = NoCalls
            /\ (f.op \in Transitions /\ f.pc \in {"wait", "idle"}
                    /\ f.guardSaw # TargetOf(f.op)) =>
                  f.calls = OnlyCall(f.op))
    /\ [][\A p \in Callers :
            (call[p].pc = "action" /\ call'[p] # call[p]) =>
                call'[p].calls = OnlyCall(call[p].op)]_vars
    /\ [][RawDriver' # RawDriver =>
            \E p \in Callers :
                /\ call[p].pc = "assign" /\ call[p].actErr = Nil
                /\ call'[p].pc = "idle" /\ RawDriver' = call[p].arg]_vars

\* Both callers are past the guard of Start, neither has called the driver
\* yet, and RawDriver is not what the driver accepted last.
C20_Witness ==
    /\ \A p \in Callers :
          /\ call[p].op = "Start" /\ call[p].pc = "action"
          /\ call[p].guardSaw = Stopped
    /\ RawDriver # drvCfg


(* ======================================================================= *)
(* Preflight Registry Builder, pkg/crc/preflight/preflight_linux.go        *)
(* ======================================================================= *)

\* The Host is left alone while the preflight code runs.
HostQuiet ==
    /\ Name = "crc"
    /\ RawDriver = 0
    /\ drvCfg = 0
    /\ drvState = Stopped
    /\ call = [p \in Callers |-> IdleFrame]

(* ---- Go slices over the storage h (a sequence of arrays) ---- *)
\* var checks []Check
NilSlice == [arr |-> 0, len |-> 0]
Cap(h, s) == IF s.arr = 0 THEN 0 ELSE Len(h[s.arr])
Elems(h, s) == IF s.arr = 0 THEN <<>> ELSE SubSeq(h[s.arr], 1, s.len)
\* table[:] of an array variable: the whole array, no spare capacity.
TableSlice(h, t) == [arr |-> t, len |-> Len(h[t])]

\* append(s, xs...) in the storage h: in place when the capacity allows it,
\* else into a new, larger array.  Gives the storage and the slice after it.
AppendInto(h, s, xs) ==
    LET need == s.len + Len(xs) IN
    IF Len(xs) = 0 THEN [h |-> h, s |-> s]
    ELSE IF need <= Cap(h, s)
    THEN [h |-> [h EXCEPT ![s.arr] =
                    [i \in 1 .. Len(@) |->
                        IF i > s.len /\ i <= need THEN xs[i - s.len] ELSE @[i]]],
          s |-> [arr |-> s.arr, len |-> need]]
    ELSE LET newcap == IF need > 2 * Cap(h, s) THEN need ELSE 2 * Cap(h, s)
             fresh == [i \in 1 .. newcap |->
                         IF i <= s.len THEN h[s.arr][i]
                         ELSE IF i <= need THEN xs[i - s.len]
                         ELSE NoCheck]
         IN  [h |-> Append(h, fresh), s |-> [arr |-> Len(h) + 1, len |-> need]]

\* checks = append(checks, xs...), hs being the storage and checks before it
\* (the arguments are evaluated once, as Go evaluates them).
GoAppend(hs, xs) ==
    CHOOSE r \in {AppendInto(v.h, v.s, ys) : v \in {hs}, ys \in {xs}} : TRUE

\* checks = append(checks, table[:]...)
AppendTable(hs, t) == GoAppend(hs, Elems(hs.h, TableSlice(hs.h, t)))

\* checks = append(checks, vsockPreflightChecks)
AppendVsock(hs) == GoAppend(hs, <<hs.h[VsockT][1]>>)

CommonStart_LibvirtPrefix(h) == [arr |-> LibvirtT, len |-> 0]

\* commonChecks: the slice it starts from, var checks []Check.
CommonStart(h) == NilSlice

commonChecks(h) ==
    AppendTable(AppendTable(AppendTable([h |-> h, s |-> CommonStart(h)],
                                        GenericT), NonWinT), LibvirtT)

\* getPreflightChecksForDistro: does it append the vsock check.
AppendsVsock(networkMode) == networkMode = VSockMode

DistroBranch_UnknownAsUbuntu(distro) ==
    CASE distro \in RedHatFamily -> "redhat"
      [] OTHER                   -> "ubuntu"

\* getPreflightChecksForDistro: the arm of the switch on distro.
DistroBranch(distro) ==
    CASE distro = Ubuntu        -> "ubuntu"
      [] distro \in RedHatFamily -> "redhat"
      [] OTHER                   -> "default"

AppendsRedhat_AnyMode(branch, networkMode) == branch # "ubuntu"

\* getPreflightChecksForDistro: does the arm append the Red Hat table.
AppendsRedhat(branch, networkMode) ==
    CASE branch = "ubuntu" -> FALSE
      [] branch = "redhat" -> networkMode = DefaultMode
      [] OTHER             -> networkMode = DefaultMode

\* getPreflightChecksForDistro: does the arm log the warning.
Warns(branch) == branch = "default"

getPreflightChecksForDistro(h, distro, networkMode) ==
    LET c == commonChecks(h)
        v == IF AppendsVsock(networkMode) THEN AppendVsock(c) ELSE c
        r == IF AppendsRedhat(DistroBranch(distro), networkMode)
             THEN AppendTable(v, RedhatT) ELSE v
    IN  [hs |-> r, distro |-> distro,
         warnings |-> IF Warns(DistroBranch(distro)) THEN <<WarnNotImplemented>>
                      ELSE <<>>]

\* distro(): the release's ID, or "unknown" and a warning.
distro(rel) ==
    IF rel.err THEN [id |-> "unknown", warnings |-> <<WarnNoDistroName>>]
    ELSE [id |-> rel.id, warnings |-> <<>>]

AllChecksMode_VSock == VSockMode

\* getAllPreflightChecks: the mode it asks getPreflightChecksForDistro for.
AllChecksMode == DefaultMode

getAllPreflightChecks(h, rel) ==
    LET c == getPreflightChecksForDistro(h, distro(rel).id, AllChecksMode)
    IN  [hs |-> AppendVsock(c.hs), distro |-> distro(rel).id,
         warnings |-> distro(rel).warnings \o c.warnings]

getPreflightChecks(h, rel, networkMode) ==
    LET c == getPreflightChecksForDistro(h, distro(rel).id, networkMode)
    IN  [hs |-> c.hs, distro |-> distro(rel).id,
         warnings |-> distro(rel).warnings \o c.warnings]

\* The registry after a call fn(.., m) that returned r: the package variables
\* are the first arrays of the storage the call left.
Built(fn, m, r) ==
    LET res == Elems(r.hs.h, r.hs.s)
        key == <<IF fn = "getAllPreflightChecks" THEN "all" ELSE "forDistro",
                 r.distro, m>>
    IN  [registry EXCEPT
            !.tables = SubSeq(r.hs.h, 1, Len(StaticTables)),
            !.last = [fn |-> fn, distro |-> r.distro, mode |-> m, result |-> res,
                      warnings |-> r.warnings],
            !.first = IF key # registry.watched THEN @
                      ELSE IF ~@.set THEN [set |-> TRUE, val |-> res, again |-> FALSE]
                      ELSE [@ EXCEPT !.again = TRUE]]

CallGetPreflightChecksForDistro ==
    /\ \E d \in Distros, m \in Modes :
          \E r \in {getPreflightChecksForDistro(registry.tables, d, m)} :
              registry' = Built("getPreflightChecksForDistro", m, r)
    /\ UNCHANGED <<hostVars, vsock, validated>>

CallGetPreflightChecks ==
    /\ \E rel \in OsReleases, m \in Modes :
          \E r \in {getPreflightChecks(registry.tables, rel, m)} :
              registry' = Built("getPreflightChecks", m, r)
    /\ UNCHANGED <<hostVars, vsock, validated>>

CallGetAllPreflightChecks ==
    /\ \E rel \in OsReleases :
          \E r \in {getAllPreflightChecks(registry.tables, rel)} :
              registry' = Built("getAllPreflightChecks", DefaultMode, r)
    /\ UNCHANGED <<hostVars, vsock, validated>>

RegistryInit ==
    /\ HostQuiet
    /\ \E k \in BuildKeys : registry = [RegistryIdle EXCEPT !.watched = k]
    /\ vsock = VsockIdle
    /\ validated = NoName

RegistryNext ==
    \/ CallGetPreflightChecksForDistro
    \/ CallGetPreflightChecks
    \/ CallGetAllPreflightChecks

SpecRegistry == RegistryInit /\ [][RegistryNext]_vars

\* The number of occurrences of x in the sequence q.
Count(q, x) == Cardinality({i \in 1 .. Len(q) : q[i] = x})

\* C11: the mode-filtered Registry Builder returns the generic table, the
\* non-Windows table, the libvirt table, the vsock check iff the mode is
\* vsock, and the Red Hat table iff the distribution is not Ubuntu and the
\* mode is default, in this order; so exactly one vsock check in vsock mode
\* and none in default mode.
C11_RegistryOrder ==
    LET l == registry.last IN
    l.fn \in {"getPreflightChecksForDistro", "getPreflightChecks"} =>
        /\ l.result =
              genericPreflightChecks \o nonWinPreflightChecks \o libvirtPreflightChecks
              \o (IF l.mode = VSockMode THEN <<vsockPreflightChecks>> ELSE <<>>)
              \o (IF l.distro # Ubuntu /\ l.mode = DefaultMode
                  THEN redhatPreflightChecks ELSE <<>>)
        /\ Count(l.result, vsockPreflightChecks) = (IF l.mode = VSockMode THEN 1 ELSE 0)

C11_Witness ==
    LET l == registry.last IN
    /\ l.fn = "getPreflightChecksForDistro" /\ l.distro = "fedora" /\ l.mode = VSockMode
    /\ Count(l.result, vsockPreflightChecks) = 1
    /\ l.result[Len(l.result)] = vsockPreflightChecks

Recognised == {"ubuntu", "rhel", "centos", "fedora"}
InSeq(q, x) == \E i \in 1 .. Len(q) : q[i] = x

\* C12: for a distribution that is not Ubuntu, RHEL, CentOS or Fedora the
\* Registry Builder records the not-implemented warning and, in default mode,
\* its result includes every check of the Red Hat table; for the recognised
\* distributions it records no such warning.
C12_UnknownDistroWarns ==
    LET l == registry.last IN
    l.fn # "none" =>
        /\ InSeq(l.warnings, WarnNotImplemented) <=> l.distro \notin Recognised
        /\ (l.distro \notin Recognised /\ l.mode = DefaultMode) =>
              \A i \in 1 .. Len(redhatPreflightChecks) :
                  InSeq(l.result, redhatPreflightChecks[i])
        /\ l.distro = "unknown" \/ ~InSeq(l.warnings, WarnNoDistroName)

C12_Witness ==
    LET l == registry.last IN
    /\ l.fn = "getPreflightChecksForDistro" /\ l.distro = "arch-unknown-xyz"
    /\ l.mode = DefaultMode
    /\ l.warnings = <<WarnNotImplemented>>
    /\ InSeq(l.result, redhatPreflightChecks[1])

\* What the mode-filtered entry point returns for distribution d and mode m.
Filtered(d, m) ==
    LET r == getPreflightChecksForDistro(registry.tables, d, m)
    IN  Elems(r.hs.h, r.hs.s)

\* C13: the list of getAllPreflightChecks holds the vsock check exactly once
\* and, for every network mode, every check the mode-filtered entry point
\* returns for the same distribution.
C13_AllChecksIsBroader ==
    LET l == registry.last IN
    l.fn = "getAllPreflightChecks" =>
        /\ Count(l.result, vsockPreflightChecks) = 1
        /\ \A m \in Modes :
              \A i \in 1 .. Len(Filtered(l.distro, m)) :
                  InSeq(l.result, Filtered(l.distro, m)[i])

C13_Witness ==
    LET l == registry.last IN
    /\ l.fn = "getAllPreflightChecks" /\ l.distro = "rhel"
    /\ l.result[Len(l.result)] = vsockPreflightChecks
    /\ InSeq(l.result, redhatPreflightChecks[1])
    /\ Len(l.result) > Len(Filtered("rhel", DefaultMode))
    /\ Len(l.result) > Len(Filtered("rhel", VSockMode))

\* The key of the last call: which builder, for which distribution and mode.
LastKey ==
    <<IF registry.last.fn = "getAllPreflightChecks" THEN "all" ELSE "forDistro",
      registry.last.distro, registry.last.mode>>

\* C19: after any sequence of Registry Builder calls the generic, non-Windows,
\* libvirt and Red Hat tables and the vsock check are what they were at
\* construction, and a call returns the list the first call with the same
\* builder, distribution and mode returned.
C19_TablesNeverMutated ==
    /\ registry.tables = StaticTables
    /\ (registry.last # NoBuild /\ LastKey = registry.watched) =>
          /\ registry.first.set
          /\ registry.last.result = registry.first.val

C19_Witness ==
    /\ registry.first.again
    /\ LastKey = registry.watched
    /\ registry.last.fn = "getAllPreflightChecks"
    /\ registry.last.result = registry.first.val
    /\ registry.tables = StaticTables


(* ======================================================================= *)
(* The vsock check and fix, pkg/crc/preflight/preflight_linux.go           *)
(* ======================================================================= *)

\* a & b on naturals.
RECURSIVE BitAnd(_, _)
BitAnd(a, b) ==
    IF a = 0 \/ b = 0 THEN 0
    ELSE 2 * BitAnd(a \div 2, b \div 2) + (IF a % 2 = 1 /\ b % 2 = 1 THEN 1 ELSE 0)

\* a | b on naturals.
RECURSIVE BitOr(_, _)
BitOr(a, b) ==
    IF a = 0 THEN b ELSE IF b = 0 THEN a
    ELSE 2 * BitOr(a \div 2, b \div 2) + (IF a % 2 = 1 \/ b % 2 = 1 THEN 1 ELSE 0)

\* strings.Contains(getcap, "cap_net_bind_service+eip") over the outputs modelled.
ContainsCapEip(out) == out = CapEip

\* checkVsock: the permission test on info.Mode().
ModeRejected(mode) == BitAnd(mode, Oct(<<0, 0, 6, 0>>)) = 0

\* What can go wrong around checkVsock whatever the system's state:
\* os.Executable, running getcap, os.Stat, the Stat_t cast, the group lookup.
CheckFaults == [exe : BOOLEAN, getcap : BOOLEAN, stat : BOOLEAN, cast : BOOLEAN,
                lookup : BOOLEAN]

\* checkVsock on the system sys with the faults ft: "nil" or the error.
checkVsock(sys, ft) ==
    IF ft.exe THEN "os.Executable failed"
    ELSE IF ft.getcap THEN "getcap failed"
    ELSE IF ~ContainsCapEip(sys.caps) THEN "capabilities are not correct"
    ELSE IF ft.stat \/ ~sys.dev THEN "stat /dev/vsock failed"
    ELSE IF ft.cast THEN "cannot cast info"
    ELSE IF ft.lookup THEN "group lookup failed"
    ELSE IF sys.group # "libvirt" THEN "/dev/vsock is not is the right group"
    ELSE IF ModeRejected(sys.mode) THEN "/dev/vsock doesn't have the right permissions"
    ELSE "nil"

\* fixVsock: the privileged commands in the order it runs them.
FixOrder == <<"setcap", "modprobe", "chown", "chmod">>

\* What a command that succeeded has done to the system.
Effect(sys, cmd) ==
    CASE cmd = "setcap"   -> [sys EXCEPT !.caps = CapEip]
      [] cmd = "modprobe" -> [sys EXCEPT !.dev = TRUE]
      [] cmd = "chown"    -> [sys EXCEPT !.group = "libvirt"]
      [] cmd = "chmod"    -> [sys EXCEPT !.mode = BitOr(@, Oct(<<0, 0, 6, 0>>))]

\* Can the command succeed at all: chown and chmod need the device node.
Possible(sys, cmd) == cmd \in {"chown", "chmod"} => sys.dev

FixGoesOn_Always(ok) == TRUE

\* fixVsock after a command: go on, or return its error.
FixGoesOn(ok) == ok

\* fixVsock from its i-th command on; grant[i] says whether the i-th
\* privileged command is let to succeed.
RECURSIVE FixFrom(_, _, _, _)
FixFrom(sys, i, grant, ran) ==
    IF i > Len(FixOrder) THEN [sys |-> sys, ran |-> ran, ret |-> "nil"]
    ELSE LET cmd == FixOrder[i]
             ok == grant[i] /\ Possible(sys, cmd)
             after == IF ok THEN Effect(sys, cmd) ELSE sys
         IN  IF FixGoesOn(ok)
             THEN FixFrom(after, i + 1, grant, Append(ran, [cmd |-> cmd, ok |-> ok]))
             ELSE [sys |-> after, ran |-> Append(ran, [cmd |-> cmd, ok |-> ok]),
                   ret |-> cmd]

\* fixVsock: "nil", or the command whose error it returns.
fixVsock(sys, exeFault, grant) ==
    IF exeFault THEN [sys |-> sys, ran |-> <<>>, ret |-> "os.Executable failed"]
    ELSE FixFrom(sys, 1, grant, <<>>)

CheckVsock ==
    /\ \E ft \in CheckFaults :
          vsock' = [vsock EXCEPT !.last =
                      [op |-> "check", ft |-> ft, ret |-> checkVsock(vsock.sys, ft)]]
    /\ UNCHANGED <<hostVars, registry, validated>>

FixVsock ==
    /\ \E exeFault \in BOOLEAN, grant \in [1 .. Len(FixOrder) -> BOOLEAN] :
          \E r \in {fixVsock(vsock.sys, exeFault, grant)} :
              vsock' = [sys |-> r.sys,
                        last |-> [op |-> "fix", before |-> vsock.sys,
                                  exeFault |-> exeFault, ran |-> r.ran, ret |-> r.ret]]
    /\ UNCHANGED <<hostVars, registry, validated>>

VsockInit ==
    /\ HostQuiet
    /\ registry = RegistryIdle
    /\ validated = NoName
    /\ \E sys \in Systems : vsock = [sys |-> sys, last |-> NoRun]

VsockNext == CheckVsock \/ FixVsock

SpecVsock == VsockInit /\ [][VsockNext]_vars

\* C14: checkVsock succeeds only when getcap's output contains
\* cap_net_bind_service+eip, the device's group is libvirt and the device's
\* group permission bits include both read and write.
C14_Original ==
    LET l == vsock.last IN
    (l.op = "check" /\ l.ret = "nil") =>
        /\ vsock.sys.caps = CapEip
        /\ vsock.sys.group = "libvirt"
        /\ BitAnd(vsock.sys.mode, Oct(<<0, 0, 4, 0>>)) # 0
        /\ BitAnd(vsock.sys.mode, Oct(<<0, 0, 2, 0>>)) # 0

\* Did the fix run cmd with success.
Succeeded(ran, cmd) == \E i \in 1 .. Len(ran) : ran[i].cmd = cmd /\ ran[i].ok

\* C15: fixVsock runs setcap, modprobe, chown, chmod in this order; the first
\* command that fails ends it with that command's error and no later command
\* is run; what the earlier commands did stays done; it returns success only
\* when all four succeeded.
C15_FixStepsInOrder ==
    LET l == vsock.last
        order == <<"setcap", "modprobe", "chown", "chmod">>
    IN  l.op = "fix" =>
        /\ Len(l.ran) <= 4
        /\ \A i \in 1 .. Len(l.ran) :
              /\ l.ran[i].cmd = order[i]
              /\ i < Len(l.ran) => l.ran[i].ok
        /\ l.ret = "nil" <=> (Len(l.ran) = 4 /\ l.ran[4].ok)
        /\ (l.ret # "nil" /\ ~l.exeFault) =>
              (Len(l.ran) >= 1 /\ ~l.ran[Len(l.ran)].ok
               /\ l.ret = l.ran[Len(l.ran)].cmd)
        /\ l.exeFault => (l.ran = <<>> /\ l.ret # "nil")
        /\ vsock.sys.caps =
              (IF Succeeded(l.ran, "setcap") THEN CapEip ELSE l.before.caps)
        /\ vsock.sys.dev = (Succeeded(l.ran, "modprobe") \/ l.before.dev)
        /\ vsock.sys.group =
              (IF Succeeded(l.ran, "chown") THEN "libvirt" ELSE l.before.group)
        /\ IF Succeeded(l.ran, "chmod")
           THEN /\ BitAnd(vsock.sys.mode, Oct(<<0, 0, 6, 0>>)) = Oct(<<0, 0, 6, 0>>)
                /\ BitAnd(vsock.sys.mode, Oct(<<0, 7, 0, 7>>))
                      = BitAnd(l.before.mode, Oct(<<0, 7, 0, 7>>))
           ELSE vsock.sys.mode = l.before.mode

C15_Witness ==
    LET l == vsock.last IN
    /\ l.op = "fix" /\ Len(l.ran) = 3
    /\ l.ran[3] = [cmd |-> "chown", ok |-> FALSE] /\ l.ret = "chown"
    /\ l.before.caps = "" /\ vsock.sys.caps = CapEip
    /\ ~l.before.dev /\ vsock.sys.dev
    /\ l.before.group = "root" /\ vsock.sys.group = "root"

(* ======================================================================= *)
(* ValidateHostName, libmachine/host/host.go                               *)
(* ======================================================================= *)

\* Longest name enumerated in full.
MaxNameLen == 3

\* A name is the sequence of its characters' code points:
\* '\n' 10, '-' 45, '.' 46, '0' 48, '9' 57, '@' 64, 'A' 65, 'Z' 90, '_' 95,
\* 'a' 97, 'z' 122, '{' 123.
NameChars == {10, 45, 46, 48, 57, 64, 65, 90, 95, 97, 122, 123}
Crc1 == <<99, 114, 99, 45, 49>>        \* "crc-1"
DashCrc == <<45, 99, 114, 99>>         \* "-crc"
CrcUnderscore1 == <<99, 114, 99, 95, 49>>  \* "crc_1"
JustA == <<97>>                        \* "a"
NameInputs ==
    UNION {[1 .. n -> NameChars] : n \in 0 .. MaxNameLen}
        \cup {Crc1, DashCrc, CrcUnderscore1, JustA}

\* A character class as a set of ranges <<lo, hi>>.
InClass(c, class) == \E r \in class : r[1] <= c /\ c <= r[2]

validHostNamePattern_AtoZ ==
    [bol |-> TRUE,
     first |-> {<<65, 122>>, <<48, 57>>},
     rest |-> {<<65, 122>>, <<48, 57>>, <<45, 45>>, <<46, 46>>},
     eol |-> TRUE]

\* regexp.MustCompile(`^[a-zA-Z0-9][a-zA-Z0-9\-\.]*$`): ^, one character of
\* the first class, any number of the second, $.
validHostNamePattern ==
    [bol |-> TRUE,
     first |-> {<<97, 122>>, <<65, 90>>, <<48, 57>>},
     rest |-> {<<97, 122>>, <<65, 90>>, <<48, 57>>, <<45, 45>>, <<46, 46>>},
     eol |-> TRUE]

\* Regexp.MatchString: some substring name[i..j] matches; ^ pins i to the
\* start of the text and $ pins j to its end.
MatchString(pat, name) ==
    \E i \in 1 .. Len(name) : \E j \in i .. Len(name) :
        /\ pat.bol => i = 1
        /\ pat.eol => j = Len(name)
        /\ InClass(name[i], pat.first)
        /\ \A k \in (i + 1) .. j : InClass(name[k], pat.rest)

ValidateHostName(name) == MatchString(validHostNamePattern, name)

CallValidateHostName ==
    /\ ~validated.done
    /\ validated' = [validated EXCEPT !.done = TRUE, !.ok = ValidateHostName(validated.name)]
    /\ UNCHANGED <<hostVars, registry, vsock>>

HostNameInit ==
    /\ HostQuiet
    /\ registry = RegistryIdle
    /\ vsock = VsockIdle
    /\ \E n \in NameInputs : validated = [NoName EXCEPT !.name = n]

HostNameNext == CallValidateHostName

SpecHostName == HostNameInit /\ [][HostNameNext]_vars

AsciiAlnum == (48 .. 57) \cup (65 .. 90) \cup (97 .. 122)

\* C16: ValidateHostName(name) is true exactly when name is non-empty, its
\* first character is an ASCII letter or digit and every later character is
\* an ASCII letter, a digit, '.' or '-'; "crc-1" and "a" are accepted, "-crc",
\* "crc_1" and the empty string rejected.
C16_HostNameGrammar ==
    LET n == validated.name IN
    validated.done =>
        /\ validated.ok <=>
              /\ Len(n) >= 1
              /\ n[1] \in AsciiAlnum
              /\ \A k \in 2 .. Len(n) : n[k] \in AsciiAlnum \cup {45, 46}
        /\ n \in {Crc1, JustA} => validated.ok
        /\ n \in {DashCrc, CrcUnderscore1, <<>>} => ~validated.ok

C16_Witness ==
    /\ validated.done /\ validated.name = Crc1 /\ validated.ok

====
